---- MODULE Spec2Model ----
(***************************************************************************)
(* Model of the streaming silence detector of src/audio/silence.go:        *)
(* SilenceDetector with its constructor, Reset and Add, and the helper     *)
(* processSilencesInTheMiddle.  Durations are integers counted in          *)
(* milliseconds; the audio level of a window is its peak amplitude.        *)
(***************************************************************************)
EXTENDS Integers, Sequences, FiniteSets, TLC

\* ------------------------------------------------------------------ bounds
\* Largest number of samples fed to one instance between two Resets.
MaxFed == 6
\* Largest number of samples in one Add call.
MaxChunk == 4
\* Largest number of samples fed between two Resets by interleaved calls.
MaxFedConcurrent == 4
\* For a caller that never resets: the most samples it lets the buffer hold,
\* the most it lets it hold while a marked window waits for its emission, and
\* its largest chunk.
MaxBufLive == 5
MaxBufPending == 8
MaxChunkLive == 3
\* The same two bounds for a caller that varies the sample rate.
MaxFedVarying == 5
MaxChunkVarying == 3

\* ------------------------------------------------------- program constants
Second == 1000
DefaultSilenceMinDuration == 1000
DefaultStepDuration == 30

\* ----------------------------------------------------------- input domains
SampleValues == {0, 1, 2}
Thresholds == {1, 2}
SampleRates == {2, 4}
\* Sample rates that give a window size <= 0 with some configuration.
DegenerateRates == {-2, 0, 2}
Configurations ==
    [SilenceMinDuration : {0, 500, 1200}, StepDuration : {0, 500}]

\* Tag of a sample that left the buffer inside an emitted segment, and tag of
\* a sample cut by the leading-silence trim of a call with threshold thr.
Emitted == <<>>
Dropped(thr) == <<thr>>

VARIABLES
    c,              \* d.c, the configuration after defaults
    samples,        \* *d.samples
    audioLevels,    \* *d.audioLevels
    sampleRate,     \* the sample rate the caller passes to every Add
    cfgIn,          \* the configuration given to NewSilenceDetector
    validSamples,   \* the segments returned by the last Add
    lastOp,         \* "New", "Reset" (of used buffers), "ResetEmpty",
                    \* "Add" (levels computed), "AddShort" (early return),
                    \* "AddHang" (level loop without end) or "AddPanic"
    lastThr,        \* silenceMaxAudioLevel of the last Add
    thrs,           \* thresholds passed since construction or Reset
    scan,           \* audio levels as scanned by the last Add (after the trim)
    fed,            \* every sample passed to Add since construction or Reset
    gone,           \* one tag per sample removed from the buffer front
    emitted,        \* every segment returned since Reset, in order
    visited,        \* indices of scan examined by the loop of the last Add
    rates,          \* sample rates passed since construction, Reset or
                    \* the last Add that found no levels buffered
    conc,           \* positions of an interleaved Add and Reset, the
                    \* locals of that Add, and whether calls overlapped
    mark            \* a buffered non-silent window that is followed

vars == <<c, samples, audioLevels, sampleRate, cfgIn, validSamples, lastOp,
          lastThr, thrs, scan, fed, gone, emitted, visited, rates, conc,
          mark>>

\* ------------------------------------------------------------ pure helpers
Abs(x) == IF x < 0 THEN -x ELSE x

RECURSIVE Peak(_)
Peak(w) ==
    IF w = <<>> THEN 0
    ELSE LET r == Peak(Tail(w)) IN IF Abs(Head(w)) > r THEN Abs(Head(w)) ELSE r

\* AudioLevel: deterministic scalar of a non-empty window (peak amplitude).
AudioLevel(w) == Peak(w)

\* Go slice s[from:to] with zero-based bounds.
Slice(s, from, to) == SubSeq(s, from + 1, to)

\* The bounds of s[from:to] lie within the length of s; otherwise the slice
\* expression panics (bounds are checked against the length, the spare
\* capacity of the backing array is not modelled).
SliceInRange(s, from, to) == 0 <= from /\ from <= to /\ to <= Len(s)

\* F(v), with v evaluated once.
Bind(v, F(_)) == CHOOSE r \in {F(x) : x \in {v}} : TRUE

RECURSIVE Flatten(_)
Flatten(ss) == IF ss = <<>> THEN <<>> ELSE Head(ss) \o Flatten(Tail(ss))

Repeat(x, n) == [j \in 1..n |-> x]

\* ---------------------------------------------------------------- the code
\* int(math.Floor(float64(sampleRate) * d.c.StepDuration.Seconds())), in
\* exact integer arithmetic (\div rounds down, as math.Floor does); the
\* rounding of the float64 product is not modelled.
WindowSize(rate, stepDuration) == (rate * stepDuration) \div Second

NewSilenceDetector(cfg) ==
    [c |-> [SilenceMinDuration |->
                IF cfg.SilenceMinDuration = 0 THEN DefaultSilenceMinDuration
                ELSE cfg.SilenceMinDuration,
            StepDuration |->
                IF cfg.StepDuration = 0 THEN DefaultStepDuration
                ELSE cfg.StepDuration],
     samples |-> <<>>,
     audioLevels |-> <<>>]

\* Variant of ResetBuffers that forgets the audio levels.
ResetBuffersKeepLevels(d) == [d EXCEPT !.samples = <<>>]

\* The buffers Reset installs.
ResetBuffers(d) == [d EXCEPT !.audioLevels = <<>>, !.samples = <<>>]

\* Variant of NotEnoughProcessable that also returns on exactly one window.
NotEnoughProcessableOrEqual(processableSamplesCount, audioLevelAnalysisSamplesCount) ==
    processableSamplesCount <= audioLevelAnalysisSamplesCount

\* Variant of NotEnoughProcessable that returns only on a negative count.
NotEnoughProcessableNegative(processableSamplesCount, audioLevelAnalysisSamplesCount) ==
    processableSamplesCount < 0

\* "Not enough processable samples"
NotEnoughProcessable(processableSamplesCount, audioLevelAnalysisSamplesCount) ==
    processableSamplesCount < audioLevelAnalysisSamplesCount

\* Bound of the loop of "Compute audio levels",
\* int(math.Floor(processable / size)).  With size 0 the quotient is infinite
\* or NaN and its conversion to int depends on the build: this is the build
\* that converts it to the least int, so that the loop does not run.
LevelsToCompute(processableSamplesCount, size) ==
    IF size > 0 THEN processableSamplesCount \div size
    ELSE IF size < 0 THEN (-processableSamplesCount) \div (-size)
    ELSE 0

\* The build that converts an infinite quotient to the greatest int: the
\* loop appends the level of an empty window without end.
LevelLoopMayNotEnd(processableSamplesCount, size) ==
    size = 0 /\ processableSamplesCount > 0

\* Variant of ComputeLevels that reads the windows from the start of the
\* samples instead of from the processed samples on.
RECURSIVE ComputeLevelsFromStart(_, _, _, _, _, _)
ComputeLevelsFromStart(levels, smp, processedSamplesCount, ws, i, n) ==
    IF i < n
    THEN ComputeLevelsFromStart(
             Append(levels, AudioLevel(Slice(smp, i * ws, i * ws + ws))),
             smp, processedSamplesCount, ws, i + 1, n)
    ELSE levels

\* "Compute audio levels": the levels of the new whole windows, appended;
\* the loop stops at the first window whose slice is out of range.
RECURSIVE ComputeLevels(_, _, _, _, _, _)
ComputeLevels(levels, smp, processedSamplesCount, ws, i, n) ==
    IF i < n /\ SliceInRange(smp, processedSamplesCount + i * ws,
                             processedSamplesCount + i * ws + ws)
    THEN LET start == processedSamplesCount + i * ws
             end == start + ws
         IN ComputeLevels(Append(levels, AudioLevel(Slice(smp, start, end))),
                          smp, processedSamplesCount, ws, i + 1, n)
    ELSE levels

\* Some window of "Compute audio levels" is sliced out of range.
LevelsPanic(smp, processedSamplesCount, ws, n) ==
    \E i \in 0..(n - 1) :
        ~SliceInRange(smp, processedSamplesCount + i * ws,
                      processedSamplesCount + i * ws + ws)

\* Variant of CountSilencesAtStart that classifies against the lowest
\* threshold instead of the threshold of the call.
RECURSIVE CountSilencesFixedThreshold(_, _)
CountSilencesFixedThreshold(levels, silenceMaxAudioLevel) ==
    IF levels # <<>> /\ Head(levels) < 1
    THEN 1 + CountSilencesFixedThreshold(Tail(levels), silenceMaxAudioLevel)
    ELSE 0

\* Variant of CountSilencesAtStart without the break: counts every silent
\* window of the buffer.
RECURSIVE CountSilencesNoBreak(_, _)
CountSilencesNoBreak(levels, silenceMaxAudioLevel) ==
    IF levels = <<>> THEN 0
    ELSE (IF Head(levels) < silenceMaxAudioLevel THEN 1 ELSE 0)
         + CountSilencesNoBreak(Tail(levels), silenceMaxAudioLevel)

\* "Count silences at the start"
RECURSIVE CountSilencesAtStart(_, _)
CountSilencesAtStart(levels, silenceMaxAudioLevel) ==
    IF levels # <<>> /\ Head(levels) < silenceMaxAudioLevel
    THEN 1 + Bind(Tail(levels),
                  LAMBDA rest :
                      CountSilencesAtStart(rest, silenceMaxAudioLevel))
    ELSE 0

\* Variant of LeadingTrim that keeps two silent windows at the start.
LeadingTrimKeepTwo(silencesCount) ==
    IF silencesCount > 2 THEN silencesCount - 2 ELSE 0

\* Variant of LeadingTrim that keeps no silent window at the start.
LeadingTrimKeepNone(silencesCount) ==
    IF silencesCount > 0 THEN silencesCount ELSE 0

\* "Keep 1 silence at the start": the number of windows cut from the front.
LeadingTrim(silencesCount) ==
    IF silencesCount > 1 THEN silencesCount - 1 ELSE 0

\* Variant of TooManySilences that takes silence_min_duration for 0.
TooManySilencesAlways(cfg, silencesCount) ==
    silencesCount * cfg.StepDuration >= 0

\* Variant of TooManySilences that is satisfied one window early.
TooManySilencesOneEarly(cfg, silencesCount) ==
    (silencesCount + 1) * cfg.StepDuration >= cfg.SilenceMinDuration

\* Variant of TooManySilences that wants more than silence_min_duration.
TooManySilencesStrict(cfg, silencesCount) ==
    silencesCount * cfg.StepDuration > cfg.SilenceMinDuration

\* "Too many silences, we have valid samples!"
TooManySilences(cfg, silencesCount) ==
    silencesCount * cfg.StepDuration >= cfg.SilenceMinDuration

\* Variant of processSilencesInTheMiddle that forgets to trim the levels.
processSilencesKeepLevels(st, ws, i, silencesCount) ==
    IF silencesCount * st.c.StepDuration >= st.c.SilenceMinDuration
    THEN LET end == (i - silencesCount) * ws
         IN IF ~SliceInRange(st.samples, 0, end)
            THEN [st EXCEPT !.ret = "AddPanic", !.validSamples = <<>>]
            ELSE [st EXCEPT
                    !.validSamples = Append(@, Slice(st.samples, 0, end)),
                    !.samples = Slice(@, end, Len(@)),
                    !.offset = @ + (i - silencesCount)]
    ELSE st

\* st = [c, samples, audioLevels, validSamples, offset, visited, ret]: the
\* detector, the segments so far, and for the history the number of windows
\* cut by the splits of this call, the windows examined and the outcome.
processSilencesInTheMiddle(st, ws, i, silencesCount) ==
    IF TooManySilences(st.c, silencesCount)
    THEN LET end == (i - silencesCount) * ws
         IN IF \/ ~SliceInRange(st.samples, 0, end)
               \/ ~SliceInRange(st.audioLevels, i - silencesCount,
                                Len(st.audioLevels))
            THEN [st EXCEPT !.ret = "AddPanic", !.validSamples = <<>>]
            ELSE [st EXCEPT
                    !.validSamples = Append(@, Slice(st.samples, 0, end)),
                    !.audioLevels = Slice(@, i - silencesCount, Len(@)),
                    !.samples = Slice(@, end, Len(@)),
                    !.offset = @ + (i - silencesCount)]
    ELSE st

\* "Process silences in the middle": the loop over i and the final call.
RECURSIVE ScanLoop(_, _, _, _, _)
ScanLoop(st, ws, silenceMaxAudioLevel, i, silencesCount) ==
    IF st.ret = "AddPanic" THEN st
    ELSE IF i < Len(st.audioLevels)
    THEN IF st.audioLevels[i + 1] < silenceMaxAudioLevel
         THEN Bind([st EXCEPT !.visited = Append(@, i + st.offset)],
                   LAMBDA next :
                       ScanLoop(next, ws, silenceMaxAudioLevel, i + 1,
                                silencesCount + 1))
         ELSE Bind(processSilencesInTheMiddle(
                       [st EXCEPT !.visited = Append(@, i + st.offset)],
                       ws, i, silencesCount),
                   LAMBDA next :
                       ScanLoop(next, ws, silenceMaxAudioLevel, i + 1, 0))
    ELSE processSilencesInTheMiddle(st, ws, i, silencesCount)

\* Add from "Compute audio levels" on, for the buffers as they are then and
\* the counts computed before: the new detector state, the returned segments,
\* and for the history the number of windows trimmed at the start, the levels
\* scanned, the windows examined and the outcome.
AddTail(d, smp, ws, processedSamplesCount, processableSamplesCount, silenceMaxAudioLevel) ==
    LET n == LevelsToCompute(processableSamplesCount, ws)
        computed == ComputeLevels(d.audioLevels, smp, processedSamplesCount,
                                  ws, 0, n)
        Scanned(cut, st) ==
            [trimmed |-> cut, scan |-> st.audioLevels]
            @@ (IF Len(st.audioLevels) <= 1 THEN st
                ELSE ScanLoop(st, ws, silenceMaxAudioLevel, 1, 0))
        Trimmed(levels, cut) ==
            IF ~SliceInRange(levels, cut, Len(levels))
            THEN [c |-> d.c, samples |-> smp, audioLevels |-> levels,
                  validSamples |-> <<>>, trimmed |-> 0, scan |-> <<>>,
                  offset |-> 0, visited |-> <<>>, ret |-> "AddPanic"]
            ELSE IF ~SliceInRange(smp, cut * ws, Len(smp))
            THEN [c |-> d.c, samples |-> smp,
                  audioLevels |-> Slice(levels, cut, Len(levels)),
                  validSamples |-> <<>>, trimmed |-> 0, scan |-> <<>>,
                  offset |-> 0, visited |-> <<>>, ret |-> "AddPanic"]
            ELSE Bind([c |-> d.c,
                       samples |-> Slice(smp, cut * ws, Len(smp)),
                       audioLevels |-> Slice(levels, cut, Len(levels)),
                       validSamples |-> <<>>, offset |-> 0,
                       visited |-> <<>>, ret |-> "Add"],
                      LAMBDA st : Scanned(cut, st))
        Computed(levels) ==
            Bind(LeadingTrim(CountSilencesAtStart(levels,
                                                  silenceMaxAudioLevel)),
                 LAMBDA cut : Trimmed(levels, cut))
    IN  IF LevelsPanic(smp, processedSamplesCount, ws, n)
        THEN [c |-> d.c, samples |-> smp, audioLevels |-> computed,
              validSamples |-> <<>>, trimmed |-> 0, scan |-> <<>>,
              offset |-> 0, visited |-> <<>>, ret |-> "AddPanic"]
        ELSE Bind(computed, LAMBDA levels : Computed(levels))

\* Add, for the build whose level loop ends.
AddResult(d, newSamples, rate, silenceMaxAudioLevel) ==
    LET smp == d.samples \o newSamples
        ws == WindowSize(rate, d.c.StepDuration)
        processedSamplesCount == Len(d.audioLevels) * ws
        processableSamplesCount == Len(smp) - processedSamplesCount
    IN  IF NotEnoughProcessable(processableSamplesCount, ws)
        THEN [c |-> d.c, samples |-> smp, audioLevels |-> d.audioLevels,
              validSamples |-> <<>>, trimmed |-> 0, scan |-> <<>>,
              offset |-> 0, visited |-> <<>>, ret |-> "AddShort"]
        ELSE AddTail(d, smp, ws, processedSamplesCount,
                     processableSamplesCount, silenceMaxAudioLevel)

\* Add, for every build: the outcomes of one call.
AddOutcomes(d, newSamples, rate, silenceMaxAudioLevel) ==
    LET smp == d.samples \o newSamples
        ws == WindowSize(rate, d.c.StepDuration)
        processableSamplesCount == Len(smp) - Len(d.audioLevels) * ws
    IN  {AddResult(d, newSamples, rate, silenceMaxAudioLevel)}
        \cup
        (IF /\ ~NotEnoughProcessable(processableSamplesCount, ws)
            /\ LevelLoopMayNotEnd(processableSamplesCount, ws)
         THEN {[c |-> d.c, samples |-> smp, audioLevels |-> d.audioLevels,
                validSamples |-> <<>>, trimmed |-> 0, scan |-> <<>>,
                offset |-> 0, visited |-> <<>>, ret |-> "AddHang"]}
         ELSE {})

\* ------------------------------------------------------------ state machine
Detector == [c |-> c, samples |-> samples, audioLevels |-> audioLevels]

ws == WindowSize(sampleRate, c.StepDuration)

\* No call is in progress in the interleaved contexts.
ConcIdle == [add |-> "idle", reset |-> "idle", overlapped |-> FALSE,
             thr |-> 0, processed |-> 0, processable |-> 0]

\* No window is marked.
NoMark == [state |-> "none", at |-> 0, waited |-> FALSE]

\* The state after NewSilenceDetector(cfgIn), for a caller that passes rate.
InitWith(rate) ==
    /\ cfgIn \in Configurations
    /\ sampleRate = rate
    /\ c = NewSilenceDetector(cfgIn).c
    /\ samples = NewSilenceDetector(cfgIn).samples
    /\ audioLevels = NewSilenceDetector(cfgIn).audioLevels
    /\ validSamples = <<>>
    /\ lastOp = "New"
    /\ lastThr = 0
    /\ thrs = {}
    /\ scan = <<>>
    /\ fed = <<>>
    /\ gone = <<>>
    /\ emitted = <<>>
    /\ visited = <<>>
    /\ rates = {}
    /\ conc = ConcIdle
    /\ mark = NoMark

Init ==
    \E rate \in SampleRates :
        /\ InitWith(rate)
        /\ WindowSize(sampleRate, c.StepDuration) > 0

\* The program runs: no call has failed to return.
Running == lastOp \notin {"AddHang", "AddPanic"}

Reset ==
    /\ Running
    /\ samples' = ResetBuffers(Detector).samples
    /\ audioLevels' = ResetBuffers(Detector).audioLevels
    /\ c' = ResetBuffers(Detector).c
    /\ validSamples' = <<>>
    /\ lastOp' = IF samples # <<>> \/ audioLevels # <<>> THEN "Reset"
                  ELSE "ResetEmpty"
    /\ lastThr' = 0
    /\ thrs' = {}
    /\ scan' = <<>>
    /\ fed' = <<>>
    /\ gone' = <<>>
    /\ emitted' = <<>>
    /\ visited' = <<>>
    /\ rates' = {}
    /\ UNCHANGED <<sampleRate, cfgIn, conc, mark>>

\* One Add call with sample rate rate, of at most maxChunk samples and while
\* at most maxFed samples have been fed.
AddWith(rate, maxChunk, maxFed) ==
    \E n \in 0..maxChunk, thr \in Thresholds :
      /\ Running
      /\ Len(fed) + n <= maxFed
      /\ \E newSamples \in [1..n -> SampleValues] :
           \E r \in AddOutcomes(Detector, newSamples, rate, thr) :
              /\ c' = r.c
              /\ samples' = r.samples
              /\ audioLevels' = r.audioLevels
              /\ validSamples' = r.validSamples
              /\ lastOp' = r.ret
              /\ lastThr' = thr
              /\ thrs' = thrs \cup {thr}
              /\ scan' = r.scan
              /\ fed' = fed \o newSamples
              /\ gone' = gone
                   \o Repeat(Dropped(thr),
                             r.trimmed * WindowSize(rate, c.StepDuration))
                   \o Repeat(Emitted, Len(Flatten(r.validSamples)))
              /\ emitted' = emitted \o r.validSamples
              /\ visited' = r.visited
              /\ rates' = IF audioLevels = <<>> THEN {rate}
                           ELSE rates \cup {rate}
              /\ sampleRate' = rate
              /\ UNCHANGED <<cfgIn, conc, mark>>

Add == AddWith(sampleRate, MaxChunk, MaxFed)

Next == Add \/ Reset

Spec == Init /\ [][Next]_vars

\* A caller that passes any of the sample rates to each Add.
AddAnyRate == \E rate \in SampleRates : AddWith(rate, MaxChunkVarying, MaxFedVarying)

NextVaryingRate == AddAnyRate \/ Reset

SpecVaryingRate == Init /\ [][NextVaryingRate]_vars

\* Two execution contexts on one instance, one calling Add and one calling
\* Reset, without mutual exclusion.  Add takes two steps, the append with
\* the counts and the early return (lines 45-60) and the rest (lines 62-112)
\* with the counts it computed; Reset takes one step per assignment.
ConcurrentAddBegin ==
    \E n \in 0..MaxFedConcurrent, thr \in Thresholds :
      /\ Running
      /\ conc.add = "idle"
      /\ Len(fed) + n <= MaxFedConcurrent
      /\ \E newSamples \in [1..n -> SampleValues] :
           LET processedSamplesCount == Len(audioLevels) * ws
               processableSamplesCount ==
                   Len(samples) + n - processedSamplesCount
               short == NotEnoughProcessable(processableSamplesCount, ws)
           IN /\ samples' = samples \o newSamples
              /\ fed' = fed \o newSamples
              /\ lastOp' = IF short THEN "AddShort" ELSE lastOp
              /\ conc' = [conc EXCEPT
                    !.add = IF short THEN "idle" ELSE "appended",
                    !.overlapped = @ \/ conc.reset # "idle",
                    !.thr = thr,
                    !.processed = processedSamplesCount,
                    !.processable = processableSamplesCount]
      /\ UNCHANGED <<c, audioLevels, sampleRate, cfgIn, validSamples, lastThr,
                     thrs, scan, gone, emitted, visited, rates, mark>>

ConcurrentAddFinish ==
    /\ Running
    /\ conc.add = "appended"
    /\ \E r \in {AddTail(Detector, samples, ws, conc.processed,
                         conc.processable, conc.thr)} :
         /\ samples' = r.samples
         /\ audioLevels' = r.audioLevels
         /\ validSamples' = r.validSamples
         /\ lastOp' = r.ret
    /\ conc' = [conc EXCEPT !.add = "idle",
                            !.overlapped = @ \/ conc.reset # "idle"]
    /\ UNCHANGED <<c, sampleRate, cfgIn, lastThr, thrs, scan, fed, gone,
                   emitted, visited, rates, mark>>

ConcurrentResetBegin ==
    /\ Running
    /\ conc.reset = "idle"
    /\ audioLevels' = ResetBuffers(Detector).audioLevels
    /\ conc' = [conc EXCEPT !.reset = "levelsCleared",
                            !.overlapped = @ \/ conc.add # "idle"]
    /\ UNCHANGED <<c, samples, sampleRate, cfgIn, validSamples, lastOp,
                   lastThr, thrs, scan, fed, gone, emitted, visited, rates,
                   mark>>

ConcurrentResetFinish ==
    /\ Running
    /\ conc.reset = "levelsCleared"
    /\ samples' = ResetBuffers(Detector).samples
    /\ fed' = <<>>
    /\ validSamples' = <<>>
    /\ lastOp' = "Reset"
    /\ conc' = [conc EXCEPT !.reset = "idle",
                            !.overlapped = @ \/ conc.add # "idle"]
    /\ UNCHANGED <<c, audioLevels, sampleRate, cfgIn, lastThr, thrs, scan,
                   gone, emitted, visited, rates, mark>>

NextConcurrent ==
    \/ ConcurrentAddBegin
    \/ ConcurrentAddFinish
    \/ ConcurrentResetBegin
    \/ ConcurrentResetFinish

SpecConcurrent == Init /\ [][NextConcurrent]_vars

\* A caller whose sample rate gives a window size <= 0.
InitDegenerate ==
    \E rate \in DegenerateRates :
        /\ InitWith(rate)
        /\ WindowSize(sampleRate, c.StepDuration) <= 0

SpecDegenerate == InitDegenerate /\ [][Next]_vars

\* ------------------------------------------------------- shared vocabulary
\* Window i (zero-based) of a sample sequence, for window size w.
Window(s, i, w) == Slice(s, i * w, (i + 1) * w)

\* Number of whole windows of a sample sequence.
Windows(s, w) == Len(s) \div w

\* Levels of the whole windows of a sample sequence.
LevelsOf(s, w) == [i \in 1..Windows(s, w) |-> AudioLevel(Window(s, i - 1, w))]

\* Levels of the whole windows of the stream fed since construction or Reset.
FedLevels == LevelsOf(fed, ws)

\* The least N with N * step_duration >= silence_min_duration.
MinSilences == (c.SilenceMinDuration + c.StepDuration - 1) \div c.StepDuration

\* Levels lv hold n consecutive windows, silent under thr, at zero-based
\* indices >= from.
HasSilentRun(lv, from, n, thr) ==
    \E a \in (from + 1)..(Len(lv) - n + 1) :
        \A j \in a..(a + n - 1) : lv[j] < thr

\* Zero-based stream window that position p (one-based) of gone lies in.
WindowOfPos(p) == (p - 1) \div ws

\* Stream windows removed from the buffer without being emitted.
DroppedWindows ==
    {WindowOfPos(p) : p \in {q \in 1..Len(gone) : gone[q] # Emitted}}

\* Samples of fed at the positions the tags of gone select.
RECURSIVE SelectEmitted(_, _)
SelectEmitted(s, tags) ==
    IF tags = <<>> THEN <<>>
    ELSE IF Head(tags) = Emitted
         THEN <<Head(s)>> \o SelectEmitted(Tail(s), Tail(tags))
         ELSE SelectEmitted(Tail(s), Tail(tags))

\* ------------------------------------------------------------------ claims

\* C1. Buffer lock-step: after every Add and Reset made with one sample rate
\* and a positive window size, len(levels) * window_size <= len(samples) and
\* every levels[i] is the level of window i of samples.
LockStep ==
    /\ Len(audioLevels) * ws <= Len(samples)
    /\ \A i \in 0..(Len(audioLevels) - 1) :
         audioLevels[i + 1] = AudioLevel(Window(samples, i, ws))

\* Witness of C1: an Add that split has left a window buffered, with windows
\* of two samples and a partial window behind it.
LockStepWitness ==
    /\ lastOp = "Add"
    /\ validSamples # <<>>
    /\ ws = 2
    /\ Len(audioLevels) >= 1
    /\ Len(samples) > Len(audioLevels) * ws

\* C2. No data loss and chronological order (no Reset in between): the
\* emitted segments in order followed by the residual buffer are the samples
\* fed with only whole windows deleted, nothing twice or reordered, and every
\* deleted window was silent under the threshold of the call that deleted it.
NoDataLoss ==
    /\ Len(gone) + Len(samples) = Len(fed)
    /\ samples = Slice(fed, Len(gone), Len(fed))
    /\ Flatten(emitted) = SelectEmitted(fed, gone)
    /\ \A p \in 1..Len(gone) :
         gone[p] # Emitted =>
           /\ (WindowOfPos(p) + 1) * ws <= Len(gone)
           /\ \A q \in (WindowOfPos(p) * ws + 1)..((WindowOfPos(p) + 1) * ws) :
                gone[q] = gone[p]
           /\ AudioLevel(Window(fed, WindowOfPos(p), ws)) < gone[p][1]

\* Witness of C2: windows were deleted, a segment was emitted after them and
\* samples remain buffered.
NoDataLossWitness ==
    /\ DroppedWindows # {}
    /\ emitted # <<>>
    /\ samples # <<>>
    /\ gone[1] # Emitted

\* C3 as stated: every window removed without being emitted lies in a run of
\* consecutive silent windows of the stream that lasts at least
\* silence_min_duration (a run that still reaches the end of the stream may
\* yet grow and is not counted against the statement).
DroppedOnlyConfirmedSilence ==
    \A p \in 1..Len(gone) :
      gone[p] # Emitted =>
        \E a \in 1..Len(FedLevels) : \E b \in a..Len(FedLevels) :
          /\ a <= WindowOfPos(p) + 1
          /\ WindowOfPos(p) + 1 <= b
          /\ \A j \in a..b : FedLevels[j] < gone[p][1]
          /\ \/ (b - a + 1) * c.StepDuration >= c.SilenceMinDuration
             \/ b = Len(FedLevels)

\* C3 amended: every window removed without being emitted is silent under
\* the threshold of the call that removed it and is directly followed in the
\* stream by another window silent under that threshold, so it lies in a run
\* of at least two silent windows, whatever the run's duration.
DroppedOnlyLeadingSilence ==
    \A p \in 1..Len(gone) :
      gone[p] # Emitted =>
        /\ WindowOfPos(p) + 2 <= Len(FedLevels)
        /\ FedLevels[WindowOfPos(p) + 1] < gone[p][1]
        /\ FedLevels[WindowOfPos(p) + 2] < gone[p][1]

\* Witness of C3: a window was removed from a silent run shorter than
\* silence_min_duration.
DroppedShortSilenceWitness ==
    /\ DroppedWindows # {}
    /\ ~DroppedOnlyConfirmedSilence

\* C4. Minimum-duration gate, negative half: an Add emits a segment only if
\* the levels it scans hold, at indices >= 1, MinSilences consecutive windows
\* silent under its threshold; otherwise nothing is emitted and the scanned
\* windows stay buffered.
GateNegative ==
    (lastOp = "Add" /\ ~HasSilentRun(scan, 1, MinSilences, lastThr)) =>
        /\ validSamples = <<>>
        /\ audioLevels = scan

\* Witness of C4: an Add scanned a silent run one window short of
\* MinSilences between two non-silent windows and emitted nothing.
GateNegativeWitness ==
    /\ lastOp = "Add"
    /\ MinSilences >= 2
    /\ validSamples = <<>>
    /\ \E a \in 2..Len(scan) :
         /\ a + MinSilences - 1 <= Len(scan)
         /\ scan[a - 1] >= lastThr
         /\ \A j \in a..(a + MinSilences - 2) : scan[j] < lastThr
         /\ scan[a + MinSilences - 1] >= lastThr

\* One-based starts of the maximal runs of at least n windows silent under
\* thr that begin at a zero-based index >= 1 of lv.
ConfirmedRunStarts(lv, n, thr) ==
    {a \in 2..Len(lv) :
        /\ lv[a - 1] >= thr
        /\ a + n - 1 <= Len(lv)
        /\ \A j \in a..(a + n - 1) : lv[j] < thr}

\* C5. Minimum-duration gate, positive half: an Add emits a segment for
\* every maximal run of at least MinSilences silent windows that starts at an
\* index >= 1 of the levels it scans, a second or later run included.
GatePositive ==
    lastOp = "Add" =>
        Len(validSamples) >=
            Cardinality(ConfirmedRunStarts(scan, MinSilences, lastThr))

\* C6. No segment returned by Add holds a run of consecutive windows silent
\* under the call's threshold that lasts at least silence_min_duration.
SegmentsHoldNoConfirmedSilence ==
    lastOp = "Add" =>
        \A k \in 1..Len(validSamples) :
            ~HasSilentRun(LevelsOf(validSamples[k], ws), 0, MinSilences,
                          lastThr)

\* Number of windows whose level has been computed since construction or
\* Reset: those that left the buffer and those still in it.
ComputedWindows == Len(gone) \div ws + Len(audioLevels)

\* The single threshold passed so far, when there is exactly one.
TheThreshold == CHOOSE t \in thrs : TRUE

\* Number of silent windows the stream begins with, under threshold t.
LeadingSilences(t) == CountSilencesAtStart(FedLevels, t)

\* C7. Leading-silence pruning: with one threshold, once the first
\* non-silent window of a stream that begins with k >= 1 silent windows has
\* been processed and no segment has been emitted, the buffer begins with
\* silent window k-1 followed by the first non-silent window, and the k-1
\* windows before it were removed without being emitted.
LeadingSilencePruned ==
    (/\ Cardinality(thrs) = 1
     /\ LeadingSilences(TheThreshold) >= 1
     /\ ComputedWindows > LeadingSilences(TheThreshold)
     /\ emitted = <<>>) =>
        LET k == LeadingSilences(TheThreshold)
        IN /\ Len(audioLevels) >= 2
           /\ audioLevels[1] < TheThreshold
           /\ audioLevels[2] >= TheThreshold
           /\ Slice(samples, 0, 2 * ws) = Slice(fed, (k - 1) * ws, (k + 1) * ws)
           /\ gone = Repeat(Dropped(TheThreshold), (k - 1) * ws)

\* Witness of C7: the stream began with two or more silent windows and the
\* Add that computed the first non-silent one has returned without a segment.
LeadingSilencePrunedWitness ==
    /\ lastOp = "Add"
    /\ Cardinality(thrs) = 1
    /\ LeadingSilences(TheThreshold) >= 2
    /\ ComputedWindows > LeadingSilences(TheThreshold)
    /\ emitted = <<>>
    /\ gone # <<>>

\* Every whole window fed so far is silent under every threshold passed.
AllSilentSoFar ==
    \A j \in 1..Len(FedLevels) : \A t \in thrs : FedLevels[j] < t

\* C8. Bounded memory under leading silence: while every window fed is
\* silent, after every Add at most one level and fewer than two windows of
\* samples are buffered.
LeadingSilenceBounded ==
    (lastOp \in {"Add", "AddShort"} /\ AllSilentSoFar) =>
        /\ Len(audioLevels) <= 1
        /\ Len(samples) < 2 * ws

\* Witness of C8: three or more silent windows were fed under both
\* thresholds, in more than one call.
LeadingSilenceBoundedWitness ==
    /\ lastOp = "Add"
    /\ AllSilentSoFar
    /\ thrs = Thresholds
    /\ Len(FedLevels) >= 3
    /\ Len(gone) >= 2 * ws

\* C9. Reset restores the fresh state: a Reset step empties samples and
\* levels, leaves the configuration unchanged and reaches the state of a
\* newly constructed instance with the same configuration (so every later
\* Add, a function of that state and its arguments, behaves as on a fresh
\* instance); a Reset right after a Reset changes nothing.
ResetRestoresFresh ==
    [][lastOp' \in {"Reset", "ResetEmpty"} =>
         /\ samples' = <<>>
         /\ audioLevels' = <<>>
         /\ c' = c
         /\ Detector' = NewSilenceDetector(cfgIn)
         /\ Detector' = NewSilenceDetector(c)
         /\ (lastOp \in {"Reset", "ResetEmpty"} => Detector' = Detector)]_vars

\* Witness of C9: Reset has been called on buffers that held samples and
\* levels, on an instance whose configuration came from the defaults.
ResetRestoresFreshWitness ==
    /\ lastOp = "Reset"
    /\ cfgIn.SilenceMinDuration = 0
    /\ samples = <<>>
    /\ audioLevels = <<>>

\* The chunk passed by the step, as the growth of fed.
NewChunk == Slice(fed', Len(fed), Len(fed'))

\* C10. Insufficient data is not an error: an Add whose buffer, once the
\* chunk is appended, holds less than one window beyond the levels returns
\* no segment, leaves levels unchanged and leaves samples as they were
\* followed by the chunk; nothing is trimmed.
InsufficientDataPreserves ==
    [][(/\ lastOp' \in {"Add", "AddShort"}
        /\ Len(fed') >= Len(fed)
        /\ Len(samples) + Len(NewChunk) - Len(audioLevels) * ws < ws) =>
         /\ validSamples' = <<>>
         /\ audioLevels' = audioLevels
         /\ samples' = samples \o NewChunk
         /\ gone' = gone]_vars

\* Witness of C10: an Add returned early on a non-empty chunk while the
\* buffer began with two or more windows silent under its threshold.
InsufficientDataWitness ==
    /\ lastOp = "AddShort"
    /\ CountSilencesAtStart(audioLevels, lastThr) >= 2
    /\ Len(samples) > Len(audioLevels) * ws

\* C11. Degenerate window size is rejected: an Add whose window size is
\* <= 0 ends with the outcome InvalidWindowSize, computes no level, emits no
\* segment, and neither loops forever nor slices out of range.
DegenerateRejected ==
    (ws <= 0 /\ lastOp \notin {"New", "Reset", "ResetEmpty"}) =>
        /\ lastOp = "AddInvalidWindowSize"
        /\ audioLevels = <<>>
        /\ validSamples = <<>>

\* C12. Threshold re-evaluation: an Add classifies every buffered level,
\* those of earlier calls included, against its own threshold: the levels it
\* scans begin with at most one window silent under that threshold, and it
\* emits a segment when they hold MinSilences consecutive windows silent
\* under that threshold at indices >= 1.
ThresholdReevaluated ==
    lastOp = "Add" =>
        /\ ~(Len(scan) >= 2 /\ scan[1] < lastThr /\ scan[2] < lastThr)
        /\ HasSilentRun(scan, 1, MinSilences, lastThr) => validSamples # <<>>

\* Witness of C12: the buffer was scanned under threshold 1, which found its
\* first windows non-silent and neither trimmed nor split, and from this
\* state one more window makes an Add with threshold 2 trim at the start and
\* split where the same Add with threshold 1 does neither.
ThresholdReevaluatedWitness ==
    /\ lastOp = "Add"
    /\ lastThr = 1
    /\ audioLevels = scan
    /\ Len(audioLevels) >= 2
    /\ audioLevels[1] >= 1
    /\ audioLevels[2] >= 1
    /\ validSamples = <<>>
    /\ \E newSamples \in [1..ws -> SampleValues] :
         /\ AddResult(Detector, newSamples, sampleRate, 1).trimmed = 0
         /\ AddResult(Detector, newSamples, sampleRate, 1).validSamples = <<>>
         /\ AddResult(Detector, newSamples, sampleRate, 2).trimmed >= 1
         /\ AddResult(Detector, newSamples, sampleRate, 2).validSamples # <<>>

\* Level of the last whole window of a segment.
LastLevel(segment) == LevelsOf(segment, ws)[Windows(segment, ws)]

\* C13. Split position: every segment an Add emits ends right before the
\* first window of the confirmed silent run, so its last window is
\* non-silent under the call's threshold, and after the split the buffer
\* begins with the first (silent) window of that run; for every split of the
\* call.
SplitPosition ==
    (lastOp = "Add" /\ validSamples # <<>>) =>
        /\ \A k \in 1..Len(validSamples) :
             /\ Windows(validSamples[k], ws) >= 1
             /\ LastLevel(validSamples[k]) >= lastThr
        /\ audioLevels # <<>>
        /\ audioLevels[1] < lastThr

\* C14. Scan continuity after a split: the loop of an Add examines every
\* window at an index >= 1 of the levels it scans exactly once, in order,
\* and skips none after a split has trimmed the buffers.
ScanContinuity ==
    (lastOp = "Add" /\ Len(scan) >= 2) =>
        visited = [k \in 1..(Len(scan) - 1) |-> k]

\* C15. Varying sample_rate breaks lock-step: the lock-step of samples and
\* levels holds after every call as long as the sample rate has not changed
\* while levels were buffered; the witness is a state after an Add with a
\* changed rate in which it is broken.
LockStepUnlessRateVaried ==
    Cardinality(rates) <= 1 => LockStep

\* Witness of C15: an Add has returned, the sample rate differed between
\* two Add calls while levels were buffered, and levels and samples are out
\* of lock-step for the current window size.
VaryingRateBreaksLockStep ==
    /\ lastOp \in {"Add", "AddShort"}
    /\ Cardinality(rates) = 2
    /\ audioLevels # <<>>
    /\ ~LockStep

\* C20. No out-of-range slicing: with positive window sizes and a positive
\* silence_min_duration no Add slices samples or levels out of range, also
\* when the sample rate or the threshold differs from earlier calls and
\* after an earlier split of the same call.
NoSliceOutOfRange == lastOp # "AddPanic"

\* Witness of C20: an Add has split twice after the sample rate and the
\* threshold had both varied.
NoSliceOutOfRangeWitness ==
    /\ lastOp = "Add"
    /\ Len(validSamples) >= 2
    /\ Cardinality(rates) = 2
    /\ thrs = Thresholds

\* C17. Every emitted segment is non-empty valid audio: each segment an Add
\* returns is a positive number of whole windows and holds a window that is
\* non-silent under the call's threshold; an Add that scans fewer than two
\* windows returns no segment.
SegmentsNonEmptyValid ==
    /\ lastOp = "Add" =>
          \A k \in 1..Len(validSamples) :
              /\ Len(validSamples[k]) > 0
              /\ Len(validSamples[k]) % ws = 0
              /\ \E j \in 1..Windows(validSamples[k], ws) :
                     LevelsOf(validSamples[k], ws)[j] >= lastThr
    /\ (lastOp # "Add" \/ Len(scan) < 2) => validSamples = <<>>

\* Witness of C17: an Add has returned two segments, the second of which
\* holds silent windows too.
SegmentsNonEmptyValidWitness ==
    /\ lastOp = "Add"
    /\ Len(validSamples) >= 2
    /\ \E j \in 1..Windows(validSamples[2], ws) :
           LevelsOf(validSamples[2], ws)[j] < lastThr

\* The result of feeding the whole stream to a fresh instance in one Add.
OneCall ==
    AddResult(NewSilenceDetector(cfgIn), fed, sampleRate, TheThreshold)

\* A stream of whole windows has been fed under one threshold.
WholeWindowsFed ==
    /\ lastOp \in {"Add", "AddShort"}
    /\ Cardinality(thrs) = 1
    /\ fed # <<>>
    /\ Len(fed) % ws = 0

\* C18 as stated: feeding a whole-window stream under any partition into
\* chunks yields the same emitted segments and the same residual buffers as
\* feeding it in one Add call.
ChunkingIndependent ==
    WholeWindowsFed =>
        /\ emitted = OneCall.validSamples
        /\ samples = OneCall.samples
        /\ audioLevels = OneCall.audioLevels

\* C18 amended: any partition agrees with the single Add call on whether a
\* segment is emitted at all and on the first emitted segment, and on the
\* residual buffers when no segment is emitted.
ChunkingIndependentUntilSplit ==
    WholeWindowsFed =>
        /\ (emitted = <<>>) <=> (OneCall.validSamples = <<>>)
        /\ emitted # <<>> => emitted[1] = OneCall.validSamples[1]
        /\ emitted = <<>> =>
              /\ samples = OneCall.samples
              /\ audioLevels = OneCall.audioLevels

\* Witness of C18: a stream fed in more than one call has been split and
\* its residual buffer differs from that of the single call.
ChunkingWitness ==
    /\ WholeWindowsFed
    /\ Len(fed) > MaxChunk
    /\ emitted # <<>>
    /\ emitted[1] = OneCall.validSamples[1]
    /\ samples # OneCall.samples

\* Samples of the caller that never resets: silent and non-silent under
\* every threshold.
LiveSampleValues == {0, 2}

\* A caller that never resets, keeps one sample rate and one threshold, and
\* feeds chunks that each complete at least one new window.  One non-silent
\* window of the stream is marked when its level is computed and followed
\* through the trims of lines 84-85 and 128-129: mark.at is its zero-based
\* index in the buffer while it is buffered.
RunFollowsMark ==
    /\ mark.state = "buffered"
    /\ HasSilentRun(audioLevels, mark.at + 1, MinSilences, lastThr)

\* Where the window at zero-based index q of the levels scanned by a call
\* with result r is after that call.
MarkAfter(q, r, thr, waited) ==
    LET out == Len(Flatten(r.validSamples))
        state == IF q < 0 THEN "dropped"
                 ELSE IF (q + 1) * ws <= out THEN "emitted"
                 ELSE "buffered"
        at == IF state = "buffered" THEN q - out \div ws ELSE 0
    IN [state |-> state, at |-> at,
        waited |-> \/ waited
                   \/ /\ state = "buffered"
                      /\ HasSilentRun(r.audioLevels, at + 1, MinSilences,
                                      thr)]

LiveAdd ==
    \E n \in 1..MaxChunkLive,
       thr \in (IF thrs = {} THEN Thresholds ELSE thrs) :
      /\ Running
      /\ ~NotEnoughProcessable(Len(samples) + n - Len(audioLevels) * ws, ws)
      /\ \/ Len(samples) + n <= MaxBufLive
         \/ RunFollowsMark /\ Len(samples) + n <= MaxBufPending
      /\ \E newSamples \in [1..n -> LiveSampleValues] :
           \E r \in {AddResult(Detector, newSamples, sampleRate, thr)} :
              /\ c' = r.c
              /\ samples' = r.samples
              /\ audioLevels' = r.audioLevels
              /\ validSamples' = r.validSamples
              /\ lastOp' = r.ret
              /\ lastThr' = thr
              /\ thrs' = {thr}
              /\ scan' = r.scan
              /\ visited' = r.visited
              /\ \/ /\ mark.state = "buffered"
                    /\ mark' = MarkAfter(mark.at - r.trimmed, r, thr,
                                         mark.waited)
                 \/ /\ mark.state \in {"none", "emitted"}
                    /\ \/ mark' = NoMark
                       \/ \E q \in 0..(Len(r.scan) - 1) :
                            /\ r.scan[q + 1] >= thr
                            /\ mark' = MarkAfter(q, r, thr, FALSE)
                 \/ /\ mark.state = "dropped"
                    /\ mark' = mark
      /\ UNCHANGED <<sampleRate, cfgIn, fed, gone, emitted, rates, conc>>

NextLive == LiveAdd

SpecLive == Init /\ [][NextLive]_vars /\ WF_vars(LiveAdd)

\* C19. Eventual emission: for a caller that keeps feeding chunks that each
\* complete a new window, a non-silent window that is followed in the buffer
\* by a run of N silent windows is eventually inside an emitted segment, and
\* no non-silent window leaves the buffer otherwise.
EventualEmission ==
    /\ RunFollowsMark ~> (mark.state = "emitted")
    /\ [](mark.state # "dropped")

\* Witness of C19: a marked window that had stayed in the buffer at the end
\* of a call, with its run of silent windows behind it, has been emitted by
\* a later call.
EventualEmissionWitness ==
    /\ mark.state = "emitted"
    /\ mark.waited

\* C16. No internal synchronization: between calls, the lock-step of
\* samples and levels holds as long as no Add has overlapped a Reset; the
\* witness is a state reached by interleaving them in which it is broken.
LockStepUnlessOverlapped ==
    (conc.add = "idle" /\ conc.reset = "idle" /\ ~conc.overlapped) =>
        LockStep

\* Witness of C16: an Add and a Reset have overlapped, both have returned,
\* and levels and samples are out of lock-step.
InterleavingBreaksLockStep ==
    /\ conc.add = "idle"
    /\ conc.reset = "idle"
    /\ conc.overlapped
    /\ Running
    /\ audioLevels # <<>>
    /\ ~LockStep
====
